---- MODULE Spec2Model ----
(***************************************************************************)
(* A model of the taskmanager terminal application: the bubbletea model    *)
(* struct and its Update handler (keys and the reload message), the        *)
(* directory loader and multi-directory aggregator, and the search filter. *)
(* Strings are TLA+ strings; a Go slice is a sequence; a nil error is the  *)
(* empty sequence and an error is the one-element sequence of its message. *)
(***************************************************************************)
EXTENDS Integers, Sequences, FiniteSets, TLC

VARIABLES
    tasks,          \* model.tasks: the master list
    filteredTasks,  \* model.filteredTasks
    aliased,        \* filteredTasks shares its backing array with tasks
    cursor,         \* model.cursor
    err,            \* model.err
    configDirs,     \* model.configDirs
    mode,           \* model.mode
    taskContent,    \* model.taskContent
    searchQuery,    \* model.searchQuery
    fs,             \* the directory entries that exist (indices of Universe)
    readable,       \* the (expanded) directories os.ReadDir can read
    homeOk,         \* whether os.UserHomeDir succeeds
    editor,         \* the path the running editor process was given, or NoPath
    reloads,        \* reloadTasksMsg messages sent and not yet processed
    pc,             \* where the process is: "start", "run", "quit", "panic", ...
    viewed,         \* history: fullPath of visible[cursor] when TaskDetail was entered,
                    \* NoPath outside TaskDetail and ConfirmDelete
    prev,           \* history: the result of the previous application of a pure function
    config,         \* model.config: the display settings
    env,            \* os.Getenv: the values of EDITOR and VISUAL ("" when unset)
    command         \* the program of the running editor process, or NoPath

vars == <<tasks, filteredTasks, aliased, cursor, err, configDirs, mode,
          taskContent, searchQuery, fs, readable, homeOk, editor, reloads,
          pc, viewed, prev, config, env, command>>

----------------------------------------------------------------------------
(* Bounds of the model *)

MaxDirs == 2        \* longest configured directory list that is drawn
MaxQuery == 2       \* longest search query
MaxReloads == 2     \* most reload messages waiting at once

----------------------------------------------------------------------------
(* Strings *)

Max(a, b) == IF a >= b THEN a ELSE b

LowerChar(c) ==
    CASE c = "A" -> "a"
      [] c = "B" -> "b"
      [] c = "N" -> "n"
      [] c = "T" -> "t"
      [] OTHER -> c

RECURSIVE ToLower(_)
ToLower(s) ==
    IF s = "" THEN ""
    ELSE LowerChar(SubSeq(s, 1, 1)) \o ToLower(SubSeq(s, 2, Len(s)))

Contains(s, sub) ==
    \E i \in 1..(Len(s) - Len(sub) + 1) : SubSeq(s, i, i + Len(sub) - 1) = sub

\* The index of the last "." of name, 0 when there is none.
RECURSIVE LastDot(_, _)
LastDot(name, i) ==
    IF i = 0 THEN 0
    ELSE IF SubSeq(name, i, i) = "." THEN i ELSE LastDot(name, i - 1)

Ext(name) ==
    LET i == LastDot(name, Len(name))
    IN  IF i = 0 THEN "" ELSE SubSeq(name, i, Len(name))

RECURSIVE StringsUpTo(_, _)
StringsUpTo(chars, n) ==
    IF n = 0 THEN {""}
    ELSE LET shorter == StringsUpTo(chars, n - 1)
         IN  shorter \cup {s \o c : s \in shorter, c \in chars}

----------------------------------------------------------------------------
(* The file system the program runs against *)

NoError == << >>
ErrorDropped(msg) == << >>

Error(msg) == <<msg>>

NoPath == ""

\* The environment with neither EDITOR nor VISUAL set.
NoEnv == [EDITOR |-> "", VISUAL |-> ""]
Home == "/home/u"

EmptyMetadata == [Title |-> "", Status |-> "", Tags |-> << >>]

\* Every directory entry that may exist, listed in filename order within each
\* directory (the order os.ReadDir returns entries in).
Universe == <<
    [dir |-> "/home/u/a", name |-> "a.md", isDir |-> FALSE, infoOk |-> TRUE,
     modTime |-> 3, header |-> "ok",
     meta |-> [Title |-> "Ab", Status |-> "todo", Tags |-> << >>]],
    [dir |-> "/home/u/a", name |-> "b.md", isDir |-> FALSE, infoOk |-> TRUE,
     modTime |-> 1, header |-> "ok",
     meta |-> [Title |-> "", Status |-> "", Tags |-> <<"ba", "ab">>]],
    [dir |-> "/home/u/a", name |-> "c.txt", isDir |-> FALSE, infoOk |-> TRUE,
     modTime |-> 4, header |-> "none", meta |-> EmptyMetadata],
    [dir |-> "/home/u/a", name |-> "task-1.md", isDir |-> FALSE, infoOk |-> TRUE,
     modTime |-> 7, header |-> "ok",
     meta |-> [Title |-> "New Task", Status |-> "todo", Tags |-> << >>]],
    [dir |-> "/b", name |-> "B.md", isDir |-> FALSE, infoOk |-> TRUE,
     modTime |-> 3, header |-> "bad",
     meta |-> [Title |-> "a", Status |-> "", Tags |-> << >>]],
    [dir |-> "/b", name |-> "sub.md", isDir |-> TRUE, infoOk |-> TRUE,
     modTime |-> 5, header |-> "none", meta |-> EmptyMetadata],
    [dir |-> "/b", name |-> "z.md", isDir |-> FALSE, infoOk |-> FALSE,
     modTime |-> 6, header |-> "ok",
     meta |-> [Title |-> "", Status |-> "done", Tags |-> << >>]],
    [dir |-> "/b/sub.md", name |-> "x.md", isDir |-> FALSE, infoOk |-> TRUE,
     modTime |-> 2, header |-> "none", meta |-> EmptyMetadata] >>

Entries == 1..Len(Universe)
DirPool == {"~/a", "/b", "/home/u/a"}

\* The directories a configuration names that exist.
RealDirs == {Universe[i].dir : i \in Entries} \cap {"/home/u/a", "/b"}

Join(dir, name) == dir \o "/" \o name

----------------------------------------------------------------------------
(* Task Record Loader *)

expandPath(path, home) ==
    IF Len(path) >= 2 /\ SubSeq(path, 1, 2) = "~/"
    THEN IF home
         THEN [path |-> Join(Home, SubSeq(path, 3, Len(path))), err |-> NoError]
         ELSE [path |-> "", err |-> Error("couldn't get home directory")]
    ELSE [path |-> path, err |-> NoError]

\* os.ReadDir: the entries of an existing directory, in filename order.
RECURSIVE ReadDir(_, _, _)
ReadDir(dir, files, i) ==
    IF i > Len(Universe) THEN << >>
    ELSE IF i \in files /\ Universe[i].dir = dir
         THEN <<i>> \o ReadDir(dir, files, i + 1)
         ELSE ReadDir(dir, files, i + 1)

parseFrontmatterRaw(i) == Universe[i].meta

\* parseFrontmatter: a header that is missing or does not parse gives the
\* zero TaskMetadata and no error.
parseFrontmatter(i) ==
    IF Universe[i].header = "ok" THEN Universe[i].meta ELSE EmptyMetadata

taskFile(i, expandedDir, dir) ==
    [name |-> Universe[i].name,
     modTime |-> Universe[i].modTime,
     fullPath |-> Join(expandedDir, Universe[i].name),
     sourceDir |-> dir,
     metadata |-> parseFrontmatter(i)]

RECURSIVE CollectTasks(_, _, _)
CollectTasks(entries, expandedDir, dir) ==
    IF entries = << >> THEN << >>
    ELSE LET i == Head(entries)
             rest == CollectTasks(Tail(entries), expandedDir, dir)
         IN  IF Universe[i].isDir THEN rest
             ELSE IF Ext(Universe[i].name) # ".md" THEN rest
             ELSE IF ~Universe[i].infoOk THEN rest
             ELSE <<taskFile(i, expandedDir, dir)>> \o rest

loadTasksFromDirectory(dir, files, rd, home) ==
    LET expanded == expandPath(dir, home)
    IN  IF expanded.err # NoError
        THEN [tasks |-> << >>, err |-> expanded.err]
        ELSE IF expanded.path \notin rd
        THEN [tasks |-> << >>,
              err |-> Error("couldn't read directory " \o dir)]
        ELSE [tasks |-> CollectTasks(ReadDir(expanded.path, files, 1),
                                     expanded.path, dir),
              err |-> NoError]

----------------------------------------------------------------------------
(* The loader applied to drawn directories and file systems *)

InitLoad ==
    /\ \E dir \in DirPool : configDirs = <<dir>>
    /\ fs \in SUBSET Entries
    /\ readable \in SUBSET RealDirs
    /\ homeOk \in BOOLEAN
    /\ tasks = << >>
    /\ filteredTasks = << >>
    /\ aliased = FALSE
    /\ cursor = 0
    /\ err = NoError
    /\ mode = "list"
    /\ taskContent = ""
    /\ searchQuery = ""
    /\ editor = NoPath
    /\ reloads = 0
    /\ pc = "start"
    /\ viewed = NoPath
    /\ prev = << >>
    /\ config = [StatusIndicators |-> << >>, DefaultStatus |-> ""]
    /\ env = NoEnv
    /\ command = NoPath

\* loadTasksFromDirectory on the drawn directory.
LoadDirectory ==
    /\ pc = "start"
    /\ LET r == loadTasksFromDirectory(configDirs[1], fs, readable, homeOk)
       IN  /\ tasks' = r.tasks
           /\ err' = r.err
    /\ pc' = "dirloaded"
    /\ UNCHANGED <<filteredTasks, aliased, cursor, configDirs, mode, taskContent,
                   searchQuery, fs, readable, homeOk, editor, reloads, viewed,
                   prev, config, env, command>>

NextLoad == LoadDirectory

SpecLoad == InitLoad /\ [][NextLoad]_vars

----------------------------------------------------------------------------
(* Aggregator *)

\* The comparison the other way round: oldest first.
Before(a, b) == a.modTime < b.modTime

\* less(i, j) of the sort.Slice call: allTasks[i].modTime.After(allTasks[j].modTime)
After(a, b) == a.modTime > b.modTime

\* One pass of the insertion sort sort.Slice runs on a short slice: x, appended
\* to the sorted prefix, moves left while it is less than its left neighbour.
RECURSIVE InsertSorted(_, _)
InsertSorted(sorted, x) ==
    IF sorted = << >> THEN <<x>>
    ELSE LET last == sorted[Len(sorted)]
         IN  IF After(x, last)
             THEN InsertSorted(SubSeq(sorted, 1, Len(sorted) - 1), x) \o <<last>>
             ELSE sorted \o <<x>>

RECURSIVE SortSliceFrom(_, _)
SortSliceFrom(sorted, rest) ==
    IF rest = << >> THEN sorted
    ELSE SortSliceFrom(InsertSorted(sorted, Head(rest)), Tail(rest))

\* The merged slice left in the order the directories were appended in.
SliceUnsorted(s) == s

SortSlice(s) == SortSliceFrom(<< >>, s)

\* The loop over dirs: the tasks of the directories that load, appended in the
\* order given, and one message per directory that does not.
RECURSIVE LoadEach(_, _, _, _)
LoadEach(dirs, files, rd, home) ==
    IF dirs = << >> THEN [allTasks |-> << >>, errors |-> << >>]
    ELSE LET one == loadTasksFromDirectory(Head(dirs), files, rd, home)
             rest == LoadEach(Tail(dirs), files, rd, home)
         IN  IF one.err # NoError
             THEN [allTasks |-> rest.allTasks,
                   errors |-> <<Head(dirs) \o ": " \o one.err[1]>> \o rest.errors]
             ELSE [allTasks |-> one.tasks \o rest.allTasks,
                   errors |-> rest.errors]

loadTasksFromDirectories(dirs, files, rd, home) ==
    LET each == LoadEach(dirs, files, rd, home)
        allTasks == SortSlice(each.allTasks)
    IN  IF Len(each.errors) > 0 /\ Len(allTasks) = 0
        THEN [tasks |-> << >>,
              err |-> Error("couldn't read any directories: " \o each.errors[1]),
              warnings |-> << >>]
        ELSE [tasks |-> allTasks,
              err |-> NoError,
              warnings |-> IF Len(each.errors) > 0 THEN each.errors ELSE << >>]

----------------------------------------------------------------------------
(* Display settings. A Go map is a function on its keys; the check mark of   *)
(* the done indicator is written v.                                          *)

\* defaultConfig().Display
DefaultDisplay ==
    [StatusIndicators |->
        [s \in {"todo", "in-progress", "done"} |->
            CASE s = "todo" -> "[ ]"
              [] s = "in-progress" -> "[~]"
              [] s = "done" -> "[v]"],
     DefaultStatus |-> "todo"]

\* getDefaultStatusIndicator
getDefaultStatusIndicator(status) ==
    CASE status \in {"done", "completed"} -> "[v]"
      [] status \in {"in-progress", "doing"} -> "[~]"
      [] status = "todo" -> "[ ]"
      [] OTHER -> "   "

\* DisplayConfig.GetStatusIndicator
GetStatusIndicator(c, status) ==
    IF status \in DOMAIN c.StatusIndicators
    THEN c.StatusIndicators[status]
    ELSE getDefaultStatusIndicator(status)

GetDefaultStatusFixed(c) == "todo"

\* DisplayConfig.GetDefaultStatus
GetDefaultStatus(c) == IF c.DefaultStatus # "" THEN c.DefaultStatus ELSE "todo"

\* renderListView: the status a row shows for a task, and its indicator.
RowStatus(task, c) ==
    LET status == IF task.metadata.Status = ""
                  THEN GetDefaultStatus(c)
                  ELSE task.metadata.Status
    IN  [status |-> status, indicator |-> GetStatusIndicator(c, status)]

----------------------------------------------------------------------------
(* The aggregator applied to drawn directory lists and file systems *)

DirLists == UNION {[1..n -> DirPool] : n \in 1..MaxDirs}

Reorderings(s) ==
    {[i \in 1..Len(s) |-> s[p[i]]] :
        p \in {q \in [1..Len(s) -> 1..Len(s)] :
                 \A i, j \in 1..Len(s) : q[i] = q[j] => i = j}}

InitAgg ==
    /\ configDirs \in DirLists
    /\ fs \in SUBSET Entries
    /\ readable \in SUBSET RealDirs
    /\ homeOk \in BOOLEAN
    /\ tasks = << >>
    /\ filteredTasks = << >>
    /\ aliased = FALSE
    /\ cursor = 0
    /\ err = NoError
    /\ mode = "list"
    /\ taskContent = ""
    /\ searchQuery = ""
    /\ editor = NoPath
    /\ reloads = 0
    /\ pc = "start"
    /\ viewed = NoPath
    /\ prev = << >>
    /\ config = DefaultDisplay
    /\ env = NoEnv
    /\ command = NoPath

\* initialModel's call: tasks, loadErr := loadTasksFromDirectories(dirs)
LoadDirectories ==
    /\ pc = "start"
    /\ LET r == loadTasksFromDirectories(configDirs, fs, readable, homeOk)
       IN  /\ tasks' = r.tasks
           /\ err' = r.err
           /\ prev' = r
    /\ pc' = "loaded"
    /\ UNCHANGED <<filteredTasks, aliased, cursor, configDirs, mode, taskContent,
                   searchQuery, fs, readable, homeOk, editor, reloads, viewed>>
    /\ UNCHANGED <<config, env, command>>

\* The same call with the same directories configured in another order.
LoadPermuted ==
    /\ pc = "loaded"
    /\ \E p \in Reorderings(configDirs) :
         LET r == loadTasksFromDirectories(p, fs, readable, homeOk)
         IN  /\ configDirs' = p
             /\ tasks' = r.tasks
             /\ err' = r.err
             /\ prev' = [tasks |-> tasks, err |-> err, dirs |-> configDirs]
    /\ pc' = "permuted"
    /\ UNCHANGED <<filteredTasks, aliased, cursor, mode, taskContent, searchQuery,
                   fs, readable, homeOk, editor, reloads, viewed>>
    /\ UNCHANGED <<config, env, command>>

NextAgg == LoadDirectories \/ LoadPermuted

SpecAgg == InitAgg /\ [][NextAgg]_vars

----------------------------------------------------------------------------
(* Search Filter *)

\* The loop over a task's tags with its break taken out: one append per
\* matching tag.
RECURSIVE TagLoopNoBreak(_, _, _)
TagLoopNoBreak(task, tags, query) ==
    IF tags = << >> THEN << >>
    ELSE (IF Contains(ToLower(Head(tags)), query) THEN <<task>> ELSE << >>)
             \o TagLoopNoBreak(task, Tail(tags), query)

\* The loop over a task's tags: the task is appended at the first tag that
\* contains the query, and the loop ends there.
RECURSIVE TagLoop(_, _, _)
TagLoop(task, tags, query) ==
    IF tags = << >> THEN << >>
    ELSE IF Contains(ToLower(Head(tags)), query) THEN <<task>>
    ELSE TagLoop(task, Tail(tags), query)

\* One iteration of the loop over m.tasks: what it appends for the task.
FilterOne(task, query) ==
    IF Contains(ToLower(task.name), query) THEN <<task>>
    ELSE IF Contains(ToLower(task.metadata.Title), query) THEN <<task>>
    ELSE IF Contains(ToLower(task.metadata.Status), query) THEN <<task>>
    ELSE TagLoop(task, task.metadata.Tags, query)

RECURSIVE FilterLoop(_, _)
FilterLoop(ts, query) ==
    IF ts = << >> THEN << >>
    ELSE FilterOne(Head(ts), query) \o FilterLoop(Tail(ts), query)

\* The loop started one task too late.
MatchesFromSecond(ts, searchText) ==
    FilterLoop(IF ts = << >> THEN ts ELSE Tail(ts), ToLower(searchText))

\* The filtered slice filterTasks builds for a non-empty query.
Matches(ts, searchText) == FilterLoop(ts, ToLower(searchText))

\* filterTasks on a model with master list ts, query searchText and cursor cur:
\* the new filteredTasks, whether it is the slice m.tasks itself, and the cursor.
filterTasks(ts, searchText, cur) ==
    IF searchText = ""
    THEN [filteredTasks |-> ts, aliased |-> TRUE, cursor |-> cur]
    ELSE LET found == Matches(ts, searchText)
         IN  [filteredTasks |-> found,
              aliased |-> FALSE,
              cursor |-> IF cur >= Len(found) THEN 0 ELSE cur]

visibleTasksOf(m, ts, filtered, searchText) ==
    IF m = "search" /\ Len(filtered) > 0 THEN filtered
    ELSE IF m = "search" /\ searchText # "" THEN << >>
    ELSE ts

visibleTasks == visibleTasksOf(mode, tasks, filteredTasks, searchQuery)

----------------------------------------------------------------------------
(* The search filter applied to drawn master lists and queries *)

QueryChars == {"a", "b", "A", "o"}

\* The master lists the aggregator can deliver.
MasterLists ==
    {loadTasksFromDirectories(d, f, RealDirs, TRUE).tasks :
        d \in DirLists, f \in SUBSET Entries}

InitFilter ==
    /\ tasks \in MasterLists
    /\ searchQuery \in StringsUpTo(QueryChars, MaxQuery)
    /\ cursor \in 0..Max(0, Len(tasks) - 1)
    /\ mode = "search"
    /\ filteredTasks = << >>
    /\ aliased = FALSE
    /\ err = NoError
    /\ configDirs = <<"~/a", "/b">>
    /\ fs = Entries
    /\ readable = RealDirs
    /\ homeOk = TRUE
    /\ taskContent = ""
    /\ editor = NoPath
    /\ reloads = 0
    /\ pc = "start"
    /\ viewed = NoPath
    /\ prev = << >>
    /\ config = DefaultDisplay
    /\ env = NoEnv
    /\ command = NoPath

\* m.filterTasks() on the drawn model.
FilterOnce ==
    /\ pc = "start"
    /\ LET r == filterTasks(tasks, searchQuery, cursor)
       IN  /\ filteredTasks' = r.filteredTasks
           /\ aliased' = r.aliased
           /\ cursor' = r.cursor
    /\ pc' = "filtered"
    /\ UNCHANGED <<tasks, err, configDirs, mode, taskContent, searchQuery, fs,
                   readable, homeOk, editor, reloads, viewed, prev>>
    /\ UNCHANGED <<config, env, command>>

\* m.filterTasks() again, with the first result as the master list.
FilterAgain ==
    /\ pc = "filtered"
    /\ LET r == filterTasks(filteredTasks, searchQuery, cursor)
       IN  /\ filteredTasks' = r.filteredTasks
           /\ aliased' = r.aliased
           /\ cursor' = r.cursor
    /\ tasks' = filteredTasks
    /\ prev' = [tasks |-> tasks, filteredTasks |-> filteredTasks]
    /\ pc' = "refiltered"
    /\ UNCHANGED <<err, configDirs, mode, taskContent, searchQuery, fs,
                   readable, homeOk, editor, reloads, viewed>>
    /\ UNCHANGED <<config, env, command>>

NextFilter == FilterOnce \/ FilterAgain

SpecFilter == InitFilter /\ [][NextFilter]_vars

----------------------------------------------------------------------------
(* The list view's status column for drawn display settings and statuses *)

TaskStatuses ==
    {"", "todo", "in-progress", "doing", "done", "completed", "waiting", "Done"}

DefaultStatuses == {"", "todo", "doing", "waiting"}

\* The [display] tables of a configuration file: indicators of its own for
\* some statuses, or the table of the default configuration.
IndicatorMaps ==
    {[s \in S |-> "<" \o s \o ">"] : S \in SUBSET {"todo", "doing", "waiting"}}
        \cup {DefaultDisplay.StatusIndicators}

DisplayConfigs ==
    {[StatusIndicators |-> m, DefaultStatus |-> d] :
        m \in IndicatorMaps, d \in DefaultStatuses}

\* A model that holds one task, whose header gives the drawn status.
InitDisplay ==
    /\ config \in DisplayConfigs
    /\ env = NoEnv
    /\ command = NoPath
    /\ \E status \in TaskStatuses :
         tasks = <<[taskFile(1, "/home/u/a", "~/a") EXCEPT !.metadata.Status = status]>>
    /\ filteredTasks = << >>
    /\ aliased = FALSE
    /\ cursor = 0
    /\ err = NoError
    /\ configDirs = <<"~/a", "/b">>
    /\ mode = "list"
    /\ taskContent = ""
    /\ searchQuery = ""
    /\ fs = Entries
    /\ readable = RealDirs
    /\ homeOk = TRUE
    /\ editor = NoPath
    /\ reloads = 0
    /\ pc = "start"
    /\ viewed = NoPath
    /\ prev = << >>

\* renderListView: the status and the indicator of every visible row.
RenderListView ==
    /\ pc = "start"
    /\ prev' = [i \in 1..Len(visibleTasks) |-> RowStatus(visibleTasks[i], config)]
    /\ pc' = "rendered"
    /\ UNCHANGED <<tasks, filteredTasks, aliased, cursor, err, configDirs, mode,
                   taskContent, searchQuery, fs, readable, homeOk, editor,
                   reloads, viewed, config, env, command>>

NextDisplay == RenderListView

SpecDisplay == InitDisplay /\ [][NextDisplay]_vars

----------------------------------------------------------------------------
(* Application State Machine *)

\* The keys that reach the default case of Update's switch.
OtherKeys == {"a", "b", "tab"}

\* The file createTask writes: task-<timestamp>.md in the first directory.
NewTaskName == "task-1.md"

\* The existing entries at path.
FileAt(path) ==
    {i \in fs : Join(Universe[i].dir, Universe[i].name) = path /\ ~Universe[i].isDir}

\* What os.ReadFile returns for the file at path.
ContentOf(path) == "content of " \o path

RemoveFirst(s, c) == SubSeq(s, 2, Len(s))

\* append(m.tasks[:c], m.tasks[c+1:]...)
RemoveAt(s, c) == SubSeq(s, 1, c) \o SubSeq(s, c + 2, Len(s))

\* What the append in deleteTask leaves in a slice f of length >= n that shares
\* the backing array of m.tasks (length n): the elements after index c, up to
\* index n-1, move one place left, and the rest of the array is untouched.
ShiftedLeft(f, c, n) ==
    [i \in 1..Len(f) |-> IF c + 1 <= i /\ i <= n - 1 THEN f[i + 1] ELSE f[i]]

StartDirLists == {<<"~/a", "/b">>}
StartFiles == {i \in Entries : Universe[i].name # NewTaskName}

\* The directory initialModel falls back to, and GetDirectories' default.
FallbackDirs == <<"~/.tasks">>

\* The [taskmanager] tables a configuration file can hold: a directory list,
\* a single legacy directory, both, or neither.
Configs ==
    {[Directories |-> d, Directory |-> ""] : d \in StartDirLists}
        \cup {[Directories |-> d, Directory |-> "/b"] : d \in StartDirLists}
        \cup {[Directories |-> << >>, Directory |-> "/b"],
              [Directories |-> << >>, Directory |-> ""]}

GetDirectoriesListOnly(c) == c.Directories

\* TaskManagerConfig.GetDirectories
GetDirectories(c) ==
    IF Len(c.Directories) > 0 THEN c.Directories
    ELSE IF c.Directory # "" THEN <<c.Directory>>
    ELSE FallbackDirs

initialModelDropsError(cfgOk, cfg, files, rd, home) ==
    IF ~cfgOk
    THEN [tasks |-> << >>, cursor |-> 0, err |-> NoError,
          configDirs |-> FallbackDirs, mode |-> "list"]
    ELSE LET dirs == GetDirectories(cfg)
         IN  [tasks |-> loadTasksFromDirectories(dirs, files, rd, home).tasks,
              cursor |-> 0, err |-> NoError, configDirs |-> dirs, mode |-> "list"]

\* initialModel: cfgOk is whether loadConfig succeeds, cfg what it returns.
initialModel(cfgOk, cfg, files, rd, home) ==
    IF ~cfgOk
    THEN [tasks |-> << >>,
          cursor |-> 0,
          err |-> Error("failed to load config"),
          configDirs |-> FallbackDirs,
          mode |-> "list"]
    ELSE LET dirs == GetDirectories(cfg)
             r == loadTasksFromDirectories(dirs, files, rd, home)
         IN  [tasks |-> r.tasks,
              cursor |-> 0,
              err |-> r.err,
              configDirs |-> dirs,
              mode |-> "list"]

\* The program starts: the model tea.NewProgram is given.
Init ==
    /\ fs = StartFiles
    /\ readable \in SUBSET RealDirs
    /\ homeOk \in BOOLEAN
    /\ \E cfgOk \in BOOLEAN, cfg \in Configs :
         LET m == initialModel(cfgOk, cfg, fs, readable, homeOk)
         IN  /\ tasks = m.tasks
             /\ cursor = m.cursor
             /\ err = m.err
             /\ configDirs = m.configDirs
             /\ mode = m.mode
    /\ filteredTasks = << >>
    /\ aliased = FALSE
    /\ taskContent = ""
    /\ searchQuery = ""
    /\ editor = NoPath
    /\ reloads = 0
    /\ pc = "run"
    /\ viewed = NoPath
    /\ prev = << >>
    /\ config = DefaultDisplay
    /\ env = NoEnv
    /\ command = NoPath

\* The event loop takes the next message: the program runs and no editor holds
\* the terminal.
Ready == pc = "run" /\ editor = NoPath

ReloadKeepsCursor ==
    /\ Ready
    /\ reloads > 0
    /\ LET r == loadTasksFromDirectories(configDirs, fs, readable, homeOk)
       IN  /\ tasks' = r.tasks
           /\ err' = r.err
    /\ mode' = "list"
    /\ taskContent' = ""
    /\ aliased' = FALSE
    /\ reloads' = reloads - 1
    /\ viewed' = NoPath
    /\ UNCHANGED <<filteredTasks, cursor, configDirs, searchQuery, fs, readable,
                   homeOk, editor, pc, prev>>
    /\ UNCHANGED <<config, env, command>>

\* case reloadTasksMsg
Reload ==
    /\ Ready
    /\ reloads > 0
    /\ LET r == loadTasksFromDirectories(configDirs, fs, readable, homeOk)
       IN  /\ tasks' = r.tasks
           /\ err' = r.err
    /\ mode' = "list"
    /\ taskContent' = ""
    /\ cursor' = 0
    /\ aliased' = FALSE
    /\ reloads' = reloads - 1
    /\ viewed' = NoPath
    /\ UNCHANGED <<filteredTasks, configDirs, searchQuery, fs, readable, homeOk,
                   editor, pc, prev>>
    /\ UNCHANGED <<config, env, command>>

KeyQuitOutsideSearch ==
    /\ Ready
    /\ mode # "search"
    /\ pc' = "quit"
    /\ UNCHANGED <<tasks, filteredTasks, aliased, cursor, err, configDirs, mode,
                   taskContent, searchQuery, fs, readable, homeOk, editor,
                   reloads, viewed, prev>>
    /\ UNCHANGED <<config, env, command>>

\* case "q", "ctrl+c"
KeyQuit ==
    /\ Ready
    /\ pc' = "quit"
    /\ UNCHANGED <<tasks, filteredTasks, aliased, cursor, err, configDirs, mode,
                   taskContent, searchQuery, fs, readable, homeOk, editor,
                   reloads, viewed, prev>>
    /\ UNCHANGED <<config, env, command>>

KeyEscKeepsCursor ==
    /\ Ready
    /\ mode' = CASE mode = "task" -> "list"
                 [] mode = "confirm" -> "task"
                 [] mode = "search" -> "list"
                 [] mode = "help" -> "list"
                 [] OTHER -> mode
    /\ taskContent' = IF mode = "task" THEN "" ELSE taskContent
    /\ searchQuery' = IF mode = "search" THEN "" ELSE searchQuery
    /\ filteredTasks' = IF mode = "search" THEN << >> ELSE filteredTasks
    /\ aliased' = IF mode = "search" THEN FALSE ELSE aliased
    /\ viewed' = IF mode = "task" THEN NoPath ELSE viewed
    /\ UNCHANGED <<tasks, cursor, err, configDirs, fs, readable, homeOk, editor,
                   reloads, pc, prev>>
    /\ UNCHANGED <<config, env, command>>

KeyEscIgnoredInHelp ==
    /\ Ready
    /\ mode' = CASE mode = "task" -> "list"
                 [] mode = "confirm" -> "task"
                 [] mode = "search" -> "list"
                 [] OTHER -> mode
    /\ taskContent' = IF mode = "task" THEN "" ELSE taskContent
    /\ searchQuery' = IF mode = "search" THEN "" ELSE searchQuery
    /\ filteredTasks' = IF mode = "search" THEN << >> ELSE filteredTasks
    /\ aliased' = IF mode = "search" THEN FALSE ELSE aliased
    /\ cursor' = IF mode = "search" THEN 0 ELSE cursor
    /\ viewed' = IF mode = "task" THEN NoPath ELSE viewed
    /\ UNCHANGED <<tasks, err, configDirs, fs, readable, homeOk, editor, reloads,
                   pc, prev>>
    /\ UNCHANGED <<config, env, command>>

KeyEscBackToSearch ==
    /\ Ready
    /\ mode' = CASE mode = "task" -> IF searchQuery # "" THEN "search" ELSE "list"
                 [] mode = "confirm" -> "task"
                 [] mode = "search" -> "list"
                 [] mode = "help" -> "list"
                 [] OTHER -> mode
    /\ taskContent' = IF mode = "task" THEN "" ELSE taskContent
    /\ searchQuery' = IF mode = "search" THEN "" ELSE searchQuery
    /\ filteredTasks' = IF mode = "search" THEN << >> ELSE filteredTasks
    /\ aliased' = IF mode = "search" THEN FALSE ELSE aliased
    /\ cursor' = IF mode = "search" THEN 0 ELSE cursor
    /\ viewed' = IF mode = "task" THEN NoPath ELSE viewed
    /\ UNCHANGED <<tasks, err, configDirs, fs, readable, homeOk, editor, reloads,
                   pc, prev>>
    /\ UNCHANGED <<config, env, command>>

\* case "esc"
KeyEsc ==
    /\ Ready
    /\ mode' = CASE mode = "task" -> "list"
                 [] mode = "confirm" -> "task"
                 [] mode = "search" -> "list"
                 [] mode = "help" -> "list"
                 [] OTHER -> mode
    /\ taskContent' = IF mode = "task" THEN "" ELSE taskContent
    /\ searchQuery' = IF mode = "search" THEN "" ELSE searchQuery
    /\ filteredTasks' = IF mode = "search" THEN << >> ELSE filteredTasks
    /\ aliased' = IF mode = "search" THEN FALSE ELSE aliased
    /\ cursor' = IF mode = "search" THEN 0 ELSE cursor
    /\ viewed' = IF mode = "task" THEN NoPath ELSE viewed
    /\ UNCHANGED <<tasks, err, configDirs, fs, readable, homeOk, editor, reloads,
                   pc, prev>>
    /\ UNCHANGED <<config, env, command>>

KeyHelpEverywhere ==
    /\ Ready
    /\ mode' = "help"
    /\ UNCHANGED <<tasks, filteredTasks, aliased, cursor, err, configDirs,
                   taskContent, searchQuery, fs, readable, homeOk, editor,
                   reloads, pc, viewed, prev>>
    /\ UNCHANGED <<config, env, command>>

\* case "?", "h"
KeyHelp ==
    /\ Ready
    /\ mode' = IF mode \in {"list", "search"} THEN "help" ELSE mode
    /\ UNCHANGED <<tasks, filteredTasks, aliased, cursor, err, configDirs,
                   taskContent, searchQuery, fs, readable, homeOk, editor,
                   reloads, pc, viewed, prev>>
    /\ UNCHANGED <<config, env, command>>

KeyEnterClearsError ==
    /\ Ready
    /\ \E readOk \in BOOLEAN :
         LET visible == visibleTasks
             selects == /\ \/ mode = "list" /\ Len(tasks) > 0
                           \/ mode = "search" /\ Len(visible) > 0
                        /\ cursor < Len(visible)
             path == visible[cursor + 1].fullPath
         IN  IF ~selects
             THEN UNCHANGED <<err, mode, taskContent, viewed>>
             ELSE IF FileAt(path) = {} \/ ~readOk
             THEN /\ err' = Error("failed to read task")
                  /\ UNCHANGED <<mode, taskContent, viewed>>
             ELSE /\ mode' = "task"
                  /\ taskContent' = ContentOf(path)
                  /\ viewed' = path
                  /\ err' = NoError
    /\ UNCHANGED <<tasks, filteredTasks, aliased, cursor, configDirs, searchQuery,
                   fs, readable, homeOk, editor, reloads, pc, prev>>
    /\ UNCHANGED <<config, env, command>>

\* case "enter"; readOk is the outcome of os.ReadFile when the file exists.
KeyEnter ==
    /\ Ready
    /\ \E readOk \in BOOLEAN :
         LET visible == visibleTasks
             selects == /\ \/ mode = "list" /\ Len(tasks) > 0
                           \/ mode = "search" /\ Len(visible) > 0
                        /\ cursor < Len(visible)
             path == visible[cursor + 1].fullPath
         IN  IF ~selects
             THEN UNCHANGED <<err, mode, taskContent, viewed>>
             ELSE IF FileAt(path) = {} \/ ~readOk
             THEN /\ err' = Error("failed to read task")
                  /\ UNCHANGED <<mode, taskContent, viewed>>
             ELSE /\ mode' = "task"
                  /\ taskContent' = ContentOf(path)
                  /\ viewed' = path
                  /\ UNCHANGED err
    /\ UNCHANGED <<tasks, filteredTasks, aliased, cursor, configDirs, searchQuery,
                   fs, readable, homeOk, editor, reloads, pc, prev>>
    /\ UNCHANGED <<config, env, command>>

getEditorVisualFirst(e) ==
    IF e.VISUAL # "" THEN e.VISUAL
    ELSE IF e.EDITOR # "" THEN e.EDITOR
    ELSE "vim"

\* getEditor: EDITOR when it is not empty, else VISUAL when it is not empty,
\* else vim.
getEditor(e) ==
    IF e.EDITOR # "" THEN e.EDITOR
    ELSE IF e.VISUAL # "" THEN e.VISUAL
    ELSE "vim"

\* editTask: the program of exec.Command(editor, taskPath).
editTask == getEditor(env)

\* case "e": editTask indexes m.tasks with the cursor and hands the terminal to
\* the editor.
KeyE ==
    /\ Ready
    /\ reloads < MaxReloads
    /\ IF mode = "task" /\ Len(tasks) > 0
       THEN IF cursor >= Len(tasks)
            THEN pc' = "panic" /\ UNCHANGED <<editor, command>>
            ELSE /\ editor' = tasks[cursor + 1].fullPath
                 /\ command' = editTask
                 /\ UNCHANGED pc
       ELSE UNCHANGED <<editor, command, pc>>
    /\ UNCHANGED <<tasks, filteredTasks, aliased, cursor, err, configDirs, mode,
                   taskContent, searchQuery, fs, readable, homeOk, reloads,
                   viewed, prev>>
    /\ UNCHANGED <<config, env>>

createTaskUnchecked ==
    LET firstDir == expandPath(configDirs[1], homeOk)
        made == {i \in Entries : /\ Universe[i].dir = firstDir.path
                                 /\ Universe[i].name = NewTaskName
                                 /\ firstDir.path \in readable}
    IN  [path |-> Join(firstDir.path, NewTaskName), files |-> fs \cup made,
         editor |-> getEditor(env)]

\* createTask: the template is written into the first configured directory and
\* opened in the editor; a path that does not resolve or a failed write gives no
\* command.
createTask ==
    LET firstDir == expandPath(configDirs[1], homeOk)
        made == {i \in Entries : /\ Universe[i].dir = firstDir.path
                                 /\ Universe[i].name = NewTaskName}
    IN  IF firstDir.err # NoError \/ firstDir.path \notin readable \/ made = {}
        THEN [path |-> NoPath, files |-> fs, editor |-> NoPath]
        ELSE [path |-> Join(firstDir.path, NewTaskName), files |-> fs \cup made,
              editor |-> getEditor(env)]

KeyNCancelsToList ==
    /\ Ready
    /\ reloads < MaxReloads
    /\ IF mode = "list"
       THEN /\ editor' = createTask.path
            /\ command' = createTask.editor
            /\ fs' = createTask.files
            /\ UNCHANGED <<mode, taskContent>>
       ELSE /\ mode' = IF mode = "confirm" THEN "list" ELSE mode
            /\ taskContent' = IF mode = "confirm" THEN "" ELSE taskContent
            /\ UNCHANGED <<editor, command, fs>>
    /\ UNCHANGED <<tasks, filteredTasks, aliased, cursor, err, configDirs,
                   searchQuery, readable, homeOk, reloads, pc,
                   viewed, prev>>
    /\ UNCHANGED <<config, env>>

\* case "n"
KeyN ==
    /\ Ready
    /\ reloads < MaxReloads
    /\ IF mode = "list"
       THEN /\ editor' = createTask.path
            /\ command' = createTask.editor
            /\ fs' = createTask.files
            /\ UNCHANGED mode
       ELSE /\ mode' = IF mode = "confirm" THEN "task" ELSE mode
            /\ UNCHANGED <<editor, command, fs>>
    /\ UNCHANGED <<tasks, filteredTasks, aliased, cursor, err, configDirs,
                   taskContent, searchQuery, readable, homeOk, reloads, pc,
                   viewed, prev>>
    /\ UNCHANGED <<config, env>>

KeyDInList ==
    /\ Ready
    /\ mode' = IF mode \in {"task", "list"} /\ Len(tasks) > 0 THEN "confirm" ELSE mode
    /\ UNCHANGED <<tasks, filteredTasks, aliased, cursor, err, configDirs,
                   taskContent, searchQuery, fs, readable, homeOk, editor,
                   reloads, pc, viewed, prev>>
    /\ UNCHANGED <<config, env, command>>

\* case "d"
KeyD ==
    /\ Ready
    /\ mode' = IF mode = "task" /\ Len(tasks) > 0 THEN "confirm" ELSE mode
    /\ UNCHANGED <<tasks, filteredTasks, aliased, cursor, err, configDirs,
                   taskContent, searchQuery, fs, readable, homeOk, editor,
                   reloads, pc, viewed, prev>>
    /\ UNCHANGED <<config, env, command>>

\* The cursor deleteTask leaves: (c, n) are the cursor and the new length.
CursorAfterDelete(c, n) == IF c >= n /\ c > 0 THEN c - 1 ELSE c

\* case "y" and deleteTask; removeOk is the outcome of os.Remove when the file
\* exists.
KeyY ==
    /\ Ready
    /\ \E removeOk \in BOOLEAN :
         IF ~(mode = "confirm" /\ Len(tasks) > 0)
         THEN UNCHANGED <<tasks, filteredTasks, cursor, err, mode, taskContent,
                          fs, pc, viewed>>
         ELSE IF cursor >= Len(tasks)
         THEN /\ pc' = "panic"
              /\ UNCHANGED <<tasks, filteredTasks, cursor, err, mode,
                             taskContent, fs, viewed>>
         ELSE LET taskPath == tasks[cursor + 1].fullPath
              IN  IF FileAt(taskPath) = {} \/ ~removeOk
                  THEN /\ err' = Error("failed to delete task")
                       /\ mode' = "list"
                       /\ viewed' = NoPath
                       /\ UNCHANGED <<tasks, filteredTasks, cursor, taskContent,
                                      fs, pc>>
                  ELSE /\ fs' = fs \ FileAt(taskPath)
                       /\ tasks' = RemoveAt(tasks, cursor)
                       /\ filteredTasks' =
                            IF aliased
                            THEN ShiftedLeft(filteredTasks, cursor, Len(tasks))
                            ELSE filteredTasks
                       /\ cursor' = CursorAfterDelete(cursor, Len(tasks) - 1)
                       /\ mode' = "list"
                       /\ taskContent' = ""
                       /\ viewed' = NoPath
                       /\ UNCHANGED <<err, pc>>
    /\ UNCHANGED <<aliased, configDirs, searchQuery, readable, homeOk, editor,
                   reloads, prev>>
    /\ UNCHANGED <<config, env, command>>

KeySlashKeepsQuery ==
    /\ Ready
    /\ IF mode = "list"
       THEN mode' = "search" /\ cursor' = 0
       ELSE UNCHANGED <<mode, cursor>>
    /\ UNCHANGED <<tasks, filteredTasks, aliased, err, configDirs, taskContent,
                   fs, readable, homeOk, editor, reloads, pc, viewed, prev,
                   searchQuery>>
    /\ UNCHANGED <<config, env, command>>

\* case "/"
KeySlash ==
    /\ Ready
    /\ IF mode = "list"
       THEN mode' = "search" /\ searchQuery' = "" /\ cursor' = 0
       ELSE UNCHANGED <<mode, searchQuery, cursor>>
    /\ UNCHANGED <<tasks, filteredTasks, aliased, err, configDirs, taskContent,
                   fs, readable, homeOk, editor, reloads, pc, viewed, prev>>
    /\ UNCHANGED <<config, env, command>>

KeyBackspaceClears ==
    /\ Ready
    /\ IF mode = "search" /\ Len(searchQuery) > 0
       THEN LET q == ""
                r == filterTasks(tasks, q, cursor)
            IN  /\ searchQuery' = q
                /\ filteredTasks' = r.filteredTasks
                /\ aliased' = r.aliased
                /\ cursor' = r.cursor
       ELSE UNCHANGED <<searchQuery, filteredTasks, aliased, cursor>>
    /\ UNCHANGED <<tasks, err, configDirs, mode, taskContent, fs, readable,
                   homeOk, editor, reloads, pc, viewed, prev>>
    /\ UNCHANGED <<config, env, command>>

KeyBackspaceOnMaster ==
    /\ Ready
    /\ IF mode = "search" /\ Len(searchQuery) > 0
       THEN LET q == SubSeq(searchQuery, 1, Len(searchQuery) - 1)
                r == filterTasks(tasks, q, cursor)
            IN  /\ searchQuery' = q
                /\ filteredTasks' = r.filteredTasks
                /\ tasks' = r.filteredTasks
                /\ aliased' = r.aliased
                /\ cursor' = r.cursor
       ELSE UNCHANGED <<searchQuery, filteredTasks, tasks, aliased, cursor>>
    /\ UNCHANGED <<err, configDirs, mode, taskContent, fs, readable,
                   homeOk, editor, reloads, pc, viewed, prev>>
    /\ UNCHANGED <<config, env, command>>

\* case "backspace"
KeyBackspace ==
    /\ Ready
    /\ IF mode = "search" /\ Len(searchQuery) > 0
       THEN LET q == SubSeq(searchQuery, 1, Len(searchQuery) - 1)
                r == filterTasks(tasks, q, cursor)
            IN  /\ searchQuery' = q
                /\ filteredTasks' = r.filteredTasks
                /\ aliased' = r.aliased
                /\ cursor' = r.cursor
       ELSE UNCHANGED <<searchQuery, filteredTasks, aliased, cursor>>
    /\ UNCHANGED <<tasks, err, configDirs, mode, taskContent, fs, readable,
                   homeOk, editor, reloads, pc, viewed, prev>>
    /\ UNCHANGED <<config, env, command>>

\* case "up", "k"
KeyUp ==
    /\ Ready
    /\ cursor' = IF mode \in {"list", "search"} /\ cursor > 0
                 THEN cursor - 1 ELSE cursor
    /\ UNCHANGED <<tasks, filteredTasks, aliased, err, configDirs, mode,
                   taskContent, searchQuery, fs, readable, homeOk, editor,
                   reloads, pc, viewed, prev>>
    /\ UNCHANGED <<config, env, command>>

KeyDownPastEnd ==
    /\ Ready
    /\ cursor' = IF mode \in {"list", "search"} /\ cursor < Len(visibleTasks)
                 THEN cursor + 1 ELSE cursor
    /\ UNCHANGED <<tasks, filteredTasks, aliased, err, configDirs, mode,
                   taskContent, searchQuery, fs, readable, homeOk, editor,
                   reloads, pc, viewed, prev>>
    /\ UNCHANGED <<config, env, command>>

\* case "down", "j"
KeyDown ==
    /\ Ready
    /\ cursor' = IF mode \in {"list", "search"} /\ cursor < Len(visibleTasks) - 1
                 THEN cursor + 1 ELSE cursor
    /\ UNCHANGED <<tasks, filteredTasks, aliased, err, configDirs, mode,
                   taskContent, searchQuery, fs, readable, homeOk, editor,
                   reloads, pc, viewed, prev>>
    /\ UNCHANGED <<config, env, command>>

\* default: any other key
KeyOther ==
    /\ Ready
    /\ \E key \in OtherKeys :
         /\ mode = "search" /\ Len(key) = 1 => Len(searchQuery) < MaxQuery
         /\ IF mode = "search" /\ Len(key) = 1
            THEN LET q == searchQuery \o key
                     r == filterTasks(tasks, q, cursor)
                 IN  /\ searchQuery' = q
                     /\ filteredTasks' = r.filteredTasks
                     /\ aliased' = r.aliased
                     /\ cursor' = r.cursor
            ELSE UNCHANGED <<searchQuery, filteredTasks, aliased, cursor>>
    /\ UNCHANGED <<tasks, err, configDirs, mode, taskContent, fs, readable,
                   homeOk, editor, reloads, pc, viewed, prev>>
    /\ UNCHANGED <<config, env, command>>

\* What the process started by tea.ExecProcess can end with.
ExitStatuses == {NoError, Error("exit status 1")}

ExecCallbackOnSuccess(exitErr) == IF exitErr = NoError THEN "reloadTasksMsg" ELSE ""

\* The callback editTask and createTask give to tea.ExecProcess: the message it
\* returns for the exit status of the editor.
ExecCallback(exitErr) == "reloadTasksMsg"

\* The editor process exits, with whatever status: the message the callback
\* returns is sent to the program.
EditorExit ==
    /\ pc = "run"
    /\ editor # NoPath
    /\ editor' = NoPath
    /\ command' = NoPath
    /\ \E exitErr \in ExitStatuses :
         reloads' = IF ExecCallback(exitErr) = "reloadTasksMsg"
                    THEN reloads + 1 ELSE reloads
    /\ UNCHANGED <<tasks, filteredTasks, aliased, cursor, err, configDirs, mode,
                   taskContent, searchQuery, fs, readable, homeOk, pc, viewed,
                   prev>>
    /\ UNCHANGED <<config, env>>

Next ==
    \/ Reload
    \/ KeyQuit
    \/ KeyEsc
    \/ KeyHelp
    \/ KeyEnter
    \/ KeyE
    \/ KeyN
    \/ KeyD
    \/ KeyY
    \/ KeySlash
    \/ KeyBackspace
    \/ KeyUp
    \/ KeyDown
    \/ KeyOther
    \/ EditorExit

Spec == Init /\ [][Next]_vars

\* The event loop takes a waiting reloadTasksMsg off its queue: the steps of
\* Reload, which alone lowers reloads.
ReloadTaken == Ready /\ reloads > 0 /\ reloads' = reloads - 1

\* The state machine with the event loop's guarantee that a message that keeps
\* waiting while the loop runs is delivered to Update.
SpecLive == Spec /\ WF_reloads(ReloadTaken)

\* The one-character keys: those Update has a case for, and two it has not.
PrintableKeys == {"a", "b", "q", "k", "j", "h", "?", "e", "n", "d", "y", "/"}

\* switch msg.String(): the step Update takes for a one-character key. A key
\* with a case of its own never reaches the default case, whatever the mode.
UpdateKey(key) ==
    CASE key = "q" -> KeyQuit
      [] key \in {"?", "h"} -> KeyHelp
      [] key = "e" -> KeyE
      [] key = "n" -> KeyN
      [] key = "d" -> KeyD
      [] key = "y" -> KeyY
      [] key = "/" -> KeySlash
      [] key = "k" -> KeyUp
      [] key = "j" -> KeyDown
      [] OTHER -> KeyOther /\ (mode = "search" => searchQuery' = searchQuery \o key)

----------------------------------------------------------------------------
(* The editor choice under every environment *)

\* What os.Getenv can give for EDITOR and for VISUAL: "" is unset or empty.
EnvValues == {"", "nano", "code"}

\* The program starts with both directories readable, under any environment.
InitEditor ==
    /\ env \in [EDITOR : EnvValues, VISUAL : EnvValues]
    /\ command = NoPath
    /\ fs = StartFiles
    /\ readable = RealDirs
    /\ homeOk = TRUE
    /\ \E cfg \in Configs :
         LET m == initialModel(TRUE, cfg, fs, readable, homeOk)
         IN  /\ tasks = m.tasks
             /\ cursor = m.cursor
             /\ err = m.err
             /\ configDirs = m.configDirs
             /\ mode = m.mode
    /\ filteredTasks = << >>
    /\ aliased = FALSE
    /\ taskContent = ""
    /\ searchQuery = ""
    /\ editor = NoPath
    /\ reloads = 0
    /\ pc = "run"
    /\ viewed = NoPath
    /\ prev = << >>
    /\ config = DefaultDisplay

\* The events that lead to an editor and back.
NextEditor ==
    \/ KeyEnter
    \/ KeyEsc
    \/ KeyDown
    \/ KeyE
    \/ KeyN
    \/ EditorExit
    \/ Reload

SpecEditor == InitEditor /\ [][NextEditor]_vars

----------------------------------------------------------------------------
(* Properties of the state machine *)

HasSuffix(s, suffix) ==
    Len(s) >= Len(suffix) /\ SubSeq(s, Len(s) - Len(suffix) + 1, Len(s)) = suffix

\* C1: processing an event never ends the process other than through quit:
\* edit and confirm-delete always find the cursor inside the master list, so
\* editTask and deleteTask never index out of range.
C1_NeverPanics == pc # "panic"

PathsOf(s) == {s[i].fullPath : i \in 1..Len(s)}

\* C2: the path given to the editor from TaskDetail, and the file and the record
\* removed by confirm-delete, are those of the record that was selected when
\* TaskDetail was entered.
C2_ActsOnViewed ==
    [][/\ (mode = "task" /\ editor' # editor /\ editor' # NoPath) => editor' = viewed
       /\ (mode = "confirm" /\ fs' # fs) =>
            /\ fs \ fs' = FileAt(viewed)
            /\ PathsOf(tasks') = PathsOf(tasks) \ {viewed}]_vars

\* C3: the cursor is always a valid index of the visible list, or 0 when the
\* visible list is empty.
C3_CursorValid ==
    pc \in {"run", "quit"} =>
        IF Len(visibleTasks) = 0
        THEN cursor = 0
        ELSE 0 <= cursor /\ cursor < Len(visibleTasks)

\* C11: in Search mode every one-character key is appended to the query, the
\* filtered list is recomputed for the longer query and the mode stays Search,
\* also for the characters that are commands in other modes.
C11_SearchAppends ==
    [][\A key \in PrintableKeys :
         (mode = "search" /\ UpdateKey(key)) =>
            /\ searchQuery' = searchQuery \o key
            /\ filteredTasks' = filterTasks(tasks, searchQuery \o key, cursor).filteredTasks
            /\ mode' = "search"
            /\ pc' = pc]_vars

\* C12: a confirm-delete that removes the file leaves the master list with
\* exactly the record of that file taken out: one record fewer, the others
\* unchanged and in the same order; the mode becomes List.
C12_RemovesExactlyOne ==
    [][(mode = "confirm" /\ fs' # fs) =>
         /\ mode' = "list"
         /\ \E i \in 1..Len(tasks) :
              /\ fs' \subseteq fs
              /\ fs \ fs' = FileAt(tasks[i].fullPath)
              /\ Len(tasks') = Len(tasks) - 1
              /\ \A j \in 1..(i - 1) : tasks'[j] = tasks[j]
              /\ \A j \in i..Len(tasks') : tasks'[j] = tasks[j + 1]]_vars

\* A record other than the first was deleted and another record is left.
C12_Witness ==
    /\ pc = "run"
    /\ mode = "list"
    /\ ~(StartFiles \subseteq fs)
    /\ Len(tasks) = 2
    /\ cursor = 1

\* C13: a confirm-delete whose file removal fails leaves the master list and
\* the cursor as they were, sets the last error to the delete failure and
\* makes the mode List.
C13_FailedDeleteKeepsList ==
    [][(/\ mode = "confirm" /\ Len(tasks) > 0 /\ cursor < Len(tasks)
        /\ KeyY
        /\ fs' = fs) =>
         /\ tasks' = tasks
         /\ cursor' = cursor
         /\ err' = <<"failed to delete task">>
         /\ mode' = "list"]_vars

\* A delete of a record below the first has failed: no file is gone.
C13_Witness ==
    /\ pc = "run"
    /\ mode = "list"
    /\ err = <<"failed to delete task">>
    /\ fs = StartFiles
    /\ cursor > 0

\* C14: a file or a record disappears only in a step taken in ConfirmDelete
\* mode, and ConfirmDelete is entered only from TaskDetail.
C14_DeleteOnlyConfirmed ==
    [][/\ ~(fs \subseteq fs') => mode = "confirm"
       /\ ~(PathsOf(tasks) \subseteq PathsOf(tasks')) =>
            (mode = "confirm" /\ ~(fs \subseteq fs'))
       /\ Len(tasks') < Len(tasks) => (mode = "confirm" /\ ~(fs \subseteq fs'))
       /\ (mode' = "confirm" /\ mode # "confirm") => mode = "task"]_vars

\* ConfirmDelete entered once more after a file has been deleted.
C14_Witness ==
    /\ pc = "run"
    /\ mode = "confirm"
    /\ ~(StartFiles \subseteq fs)

\* C15: a reload message, whatever the mode, replaces the master list by the
\* aggregator's result for the configured directories, sets the last error to
\* the aggregator's error, the cursor to 0, the content buffer to empty and the
\* mode to List.
C15_ReloadReplaces ==
    [][reloads' < reloads =>
         LET r == loadTasksFromDirectories(configDirs, fs, readable, homeOk)
         IN  /\ tasks' = r.tasks
             /\ err' = r.err
             /\ cursor' = 0
             /\ taskContent' = ""
             /\ mode' = "list"]_vars

\* The reload after a create has been processed: the new file is in the list.
C15_Witness ==
    /\ pc = "run"
    /\ mode = "list"
    /\ editor = NoPath
    /\ reloads = 0
    /\ \E i \in 1..Len(tasks) : tasks[i].name = NewTaskName

\* C16: after every step that changes the query (typing, backspace, begin of a
\* search, cancel of a search) or the master list (reload, confirmed delete)
\* the filtered list is the filter recomputed over the new master list with the
\* new query (for the empty query: the master list, or nothing), so it holds no
\* record that has left the master list.
C16_FilterConsistent ==
    [][(\/ searchQuery' # searchQuery
        \/ tasks' # tasks
        \/ (mode = "list" /\ mode' = "search")
        \/ (mode = "search" /\ mode' = "list")) =>
         /\ IF searchQuery' = ""
            THEN filteredTasks' \in {<< >>, tasks'}
            ELSE filteredTasks' = Matches(tasks', searchQuery')
         /\ \A i \in 1..Len(filteredTasks') :
              \E j \in 1..Len(tasks') : filteredTasks'[i] = tasks'[j]]_vars

C18_TypeThenClear ==
    [][/\ \A key \in PrintableKeys :
            (mode = "search" /\ UpdateKey(key)) =>
                visibleTasks' = Matches(tasks', searchQuery \o key)
       /\ (mode = "search" /\ KeyBackspace /\ searchQuery # "" /\ searchQuery' = "") =>
            visibleTasks' = tasks']_vars

\* C19: the quit key is accepted in every mode whenever the event loop takes a
\* key, and processing it ends the program and changes no field of the model.
C19_QuitEverywhere ==
    /\ [](Ready => ENABLED (KeyQuit /\ pc' = "quit"))
    /\ [][pc' = "quit" =>
            UNCHANGED <<tasks, filteredTasks, cursor, err, configDirs, mode,
                        taskContent, searchQuery, fs>>]_vars

\* The program was quit from Search mode with a query typed.
C19_Witness ==
    /\ pc = "quit"
    /\ mode = "search"
    /\ searchQuery # ""

\* C20: at most one edit or create is in flight: no editor is started while the
\* reload message of an earlier one waits to be processed.
C20_OneEffectInFlight ==
    (IF editor = NoPath THEN 0 ELSE 1) + reloads <= 1

CreateFails ==
    \/ expandPath(configDirs[1], homeOk).err # NoError
    \/ expandPath(configDirs[1], homeOk).path \notin readable

\* C22: when Create fails to resolve the first configured directory or to write
\* the template, the create key changes nothing: no file is made, no editor is
\* started, no reload message is sent, and mode, master list, cursor and last
\* error stay as they were.
C22_FailedCreateSilent ==
    /\ [][(mode = "list" /\ KeyN /\ CreateFails) =>
            UNCHANGED <<mode, tasks, cursor, err, taskContent, searchQuery,
                        filteredTasks, fs, editor, reloads>>]_vars
    /\ [](CreateFails =>
            /\ ~HasSuffix(editor, NewTaskName)
            /\ \A i \in fs : Universe[i].name # NewTaskName
            /\ \A i \in 1..Len(tasks) : tasks[i].name # NewTaskName)

\* List mode with tasks loaded from the second directory while the first does
\* not resolve or cannot be written: the create key is processed and leaves
\* the state as it is.
C22_Witness ==
    /\ Ready
    /\ mode = "list"
    /\ CreateFails
    /\ Len(tasks) > 0
    /\ ENABLED (KeyN /\ UNCHANGED vars)

\* C23: select in List or Search mode with a non-empty visible list reads the
\* file of visible[cursor]: when the read succeeds the mode becomes TaskDetail
\* and the buffer holds that file's content; when it fails the last error is
\* set and mode, cursor, master list and buffer are unchanged.
C23_SelectOpens ==
    /\ [][(mode \in {"list", "search"} /\ Len(visibleTasks) > 0 /\ KeyEnter) =>
            /\ cursor < Len(visibleTasks)
            /\ \/ /\ mode' = "task"
                  /\ taskContent' = ContentOf(visibleTasks[cursor + 1].fullPath)
                  /\ FileAt(visibleTasks[cursor + 1].fullPath) # {}
               \/ /\ err' = <<"failed to read task">>
                  /\ UNCHANGED <<mode, cursor, tasks, taskContent>>]_vars
    /\ []((Ready /\ mode \in {"list", "search"} /\ Len(visibleTasks) > 0) =>
            /\ cursor < Len(visibleTasks)
            /\ ENABLED (KeyEnter /\ err' = <<"failed to read task">>)
            /\ FileAt(visibleTasks[cursor + 1].fullPath) # {} =>
                 ENABLED (KeyEnter /\ mode' = "task"))

\* C4: in Search mode with an empty query the visible list is the master list.
C4_EmptyQueryShowsAll ==
    (mode = "search" /\ searchQuery = "") => visibleTasks = tasks

\* The cursor c is within a visible list of n rows.
WithinVisible(c, n) == 0 <= c /\ c < Max(1, n)

\* C29: from a cursor within the visible list, an up or a down leaves the
\* cursor within the visible list; up at index 0 and down at the last index do
\* nothing, any other up or down in List or Search moves the cursor by exactly
\* one, and up and down in TaskDetail, ConfirmDelete and Help leave the cursor
\* where it is.
C29_CursorMoves ==
    [][WithinVisible(cursor, Len(visibleTasks)) =>
         /\ (KeyUp \/ KeyDown) =>
              /\ WithinVisible(cursor', Len(visibleTasks'))
              /\ visibleTasks' = visibleTasks
              /\ mode \in {"task", "confirm", "help"} => cursor' = cursor
         /\ KeyUp =>
              cursor' = IF mode \in {"task", "confirm", "help"} \/ cursor = 0
                        THEN cursor ELSE cursor - 1
         /\ KeyDown =>
              cursor' = IF \/ mode \in {"task", "confirm", "help"}
                           \/ cursor = Max(1, Len(visibleTasks)) - 1
                        THEN cursor ELSE cursor + 1]_vars

\* Nothing has been deleted and the cursor is on the last of three rows of the
\* list: two downs have moved it.
C29_Witness ==
    /\ pc = "run"
    /\ mode = "list"
    /\ fs = StartFiles
    /\ Len(visibleTasks) = 3
    /\ cursor = 2

\* C30: the master list changes only when a reload message is processed, which
\* replaces it by what the directories hold, and when a confirmed deletion
\* removes the file, which removes exactly one record; every other event, a
\* failed deletion included, leaves its length, order and records as they are.
C30_MasterListFrame ==
    [][tasks' # tasks =>
         \/ /\ reloads' = reloads - 1
            /\ tasks' = loadTasksFromDirectories(configDirs, fs, readable, homeOk).tasks
         \/ /\ mode = "confirm"
            /\ fs' # fs
            /\ \A key \in PrintableKeys \ {"y"} : ~UpdateKey(key)
            /\ \E k \in 1..Len(tasks) :
                 tasks' = SubSeq(tasks, 1, k - 1) \o SubSeq(tasks, k + 1, Len(tasks))]_vars

\* A search has narrowed the visible list to one row and the master list still
\* holds the three records that were loaded.
C30_Witness ==
    /\ pc = "run"
    /\ mode = "search"
    /\ searchQuery # ""
    /\ Len(filteredTasks) = 1
    /\ Len(tasks) = 3
    /\ fs = StartFiles

----------------------------------------------------------------------------
(* Properties of the aggregator *)

Range(s) == {s[i] : i \in 1..Len(s)}

\* A configured directory loads: its path resolves and the directory can be read.
DirLoads(dir) ==
    /\ expandPath(dir, homeOk).err = NoError
    /\ expandPath(dir, homeOk).path \in readable

\* The files a load must report: existing plain .md files with readable attributes.
Eligible(i) ==
    /\ i \in fs
    /\ ~Universe[i].isDir
    /\ Universe[i].infoOk
    /\ HasSuffix(Universe[i].name, ".md")

EligiblePaths ==
    {Join(Universe[i].dir, Universe[i].name) :
        i \in {e \in Entries : /\ Eligible(e)
                               /\ \E d \in Range(configDirs) :
                                    /\ DirLoads(d)
                                    /\ expandPath(d, homeOk).path = Universe[e].dir}}

\* C5: when at least one configured directory is readable, the merged list holds
\* every eligible file of every readable directory, nothing else, and each file
\* exactly once.
C5_UnionEachOnce ==
    (pc = "loaded" /\ \E d \in Range(configDirs) : DirLoads(d)) =>
        /\ {tasks[i].fullPath : i \in 1..Len(tasks)} = EligiblePaths
        /\ \A i, j \in 1..Len(tasks) :
             tasks[i].fullPath = tasks[j].fullPath => i = j

\* The message loadTasksFromDirectories records for a directory that fails.
FailureOf(dir) ==
    dir \o ": " \o
        (IF expandPath(dir, homeOk).err # NoError
         THEN "couldn't get home directory"
         ELSE "couldn't read directory " \o dir)

FirstFailure ==
    LET i == CHOOSE k \in 1..Len(configDirs) :
                 /\ ~DirLoads(configDirs[k])
                 /\ \A h \in 1..(k - 1) : DirLoads(configDirs[h])
    IN  FailureOf(configDirs[i])

\* C6: the aggregate load returns an error exactly when every configured
\* directory fails, and that error names the first failure; otherwise the
\* failures are warnings only.
C6_ErrorIffAllFail ==
    pc = "loaded" =>
        /\ (err # NoError) <=> (\A d \in Range(configDirs) : ~DirLoads(d))
        /\ err # NoError =>
             err = Error("couldn't read any directories: " \o FirstFailure)

\* C7: the merged list is ordered by modification time, newest first: no record
\* is older than the record that follows it.
C7_SortedNewestFirst ==
    pc \in {"loaded", "permuted"} =>
        \A i \in 1..(Len(tasks) - 1) : tasks[i].modTime >= tasks[i + 1].modTime

\* Two directories with one file each, the second directory's file the newer:
\* the merged order is [file of the second, file of the first].
C7_Witness ==
    /\ pc = "loaded"
    /\ configDirs = <<"~/a", "/b">>
    /\ Len(tasks) = 2
    /\ tasks[1].sourceDir = "/b"
    /\ tasks[2].sourceDir = "~/a"
    /\ tasks[1].modTime > tasks[2].modTime

Count(s, x) == Cardinality({i \in 1..Len(s) : s[i] = x})

----------------------------------------------------------------------------
(* Properties of the loader *)

\* The entries of the drawn directory a load must report.
LoadedEntries ==
    {i \in Entries : /\ Eligible(i)
                     /\ Universe[i].dir = expandPath(configDirs[1], homeOk).path}

\* C27: loading a readable directory never fails and gives one record for each
\* of its direct entries that is a file with the .md extension and readable
\* attributes, and for nothing else; a record whose file has no header or a
\* malformed one has all-empty metadata; a directory that cannot be read gives
\* no records and an error that names it.
C27_LoaderExact ==
    pc = "dirloaded" =>
        IF DirLoads(configDirs[1])
        THEN /\ err = NoError
             /\ Len(tasks) = Cardinality(LoadedEntries)
             /\ \A i \in LoadedEntries : \E k \in 1..Len(tasks) :
                  /\ tasks[k].name = Universe[i].name
                  /\ tasks[k].fullPath = Join(Universe[i].dir, Universe[i].name)
                  /\ tasks[k].modTime = Universe[i].modTime
                  /\ tasks[k].sourceDir = configDirs[1]
                  /\ tasks[k].metadata = IF Universe[i].header = "ok"
                                         THEN Universe[i].meta
                                         ELSE [Title |-> "", Status |-> "", Tags |-> << >>]
        ELSE /\ tasks = << >>
             /\ err # NoError
             /\ expandPath(configDirs[1], homeOk).err = NoError =>
                  \E j \in 1..Len(err[1]) : HasSuffix(SubSeq(err[1], 1, j), configDirs[1])

\* A directory holding a file with a malformed header, a subdirectory named
\* like a task with a file in it, and a file whose attributes cannot be read:
\* one record, with empty metadata.
C27_Witness ==
    /\ pc = "dirloaded"
    /\ configDirs = <<"/b">>
    /\ {i \in Entries : Universe[i].dir \in {"/b", "/b/sub.md"}} \subseteq fs
    /\ Len(tasks) = 1
    /\ tasks[1].name = "B.md"
    /\ tasks[1].metadata = [Title |-> "", Status |-> "", Tags |-> << >>]

----------------------------------------------------------------------------
(* Properties of the editor choice *)

\* C28: the program an editor process runs is EDITOR when EDITOR is not empty,
\* else VISUAL when VISUAL is not empty, else vim, whether the process was
\* started by Edit (in TaskDetail) or by Create (in List).
C28_EditorPriority ==
    editor # NoPath =>
        /\ env.EDITOR # "" => command = env.EDITOR
        /\ env.EDITOR = "" /\ env.VISUAL # "" => command = env.VISUAL
        /\ env.EDITOR = "" /\ env.VISUAL = "" => command = "vim"

\* Create has started an editor with EDITOR empty and VISUAL set: the process
\* runs the program VISUAL names.
C28_Witness ==
    /\ editor # NoPath
    /\ mode = "list"
    /\ HasSuffix(editor, NewTaskName)
    /\ env = [EDITOR |-> "", VISUAL |-> "nano"]
    /\ command = "nano"

----------------------------------------------------------------------------
(* Properties of the start of the program *)

\* No configured directory loads.
NoDirLoads == \A d \in Range(configDirs) : ~DirLoads(d)

\* C24: the program starts in List mode with cursor 0 and takes events; when
\* no configured directory can be read, or the configuration cannot be loaded,
\* the master list is empty, the last error is the load failure, the directory
\* list is kept, and the program goes on taking events.
C24_StartsInList ==
    /\ Ready /\ mode = "list" /\ cursor = 0
    /\ NoDirLoads =>
         /\ tasks = << >>
         /\ err \in {<<"failed to load config">>,
                     <<"couldn't read any directories: " \o FirstFailure>>}
         /\ Len(configDirs) > 0
    /\ [][configDirs' = configDirs]_vars
    /\ []((NoDirLoads /\ pc = "run") =>
            /\ Ready
            /\ ENABLED (KeyQuit /\ pc' = "quit")
            /\ tasks = << >>
            /\ err # NoError
            /\ mode \in {"list", "search", "help"})

\* Both configured directories fail and the user has opened the help screen.
C24_Witness ==
    /\ NoDirLoads
    /\ Len(configDirs) = 2
    /\ pc = "run"
    /\ mode = "help"
    /\ err = <<"couldn't read any directories: " \o FirstFailure>>

\* C25: the directory list of the model is never empty: GetDirectories gives
\* the directory list when it has entries, else the single legacy directory
\* when it is set, else the one default directory, and a failed configuration
\* load gives the default directory; configDirs[0] always exists.
C25_DirsNeverEmpty ==
    /\ Len(configDirs) > 0
    /\ 1 \in DOMAIN configDirs
    /\ err = <<"failed to load config">> => configDirs = <<"~/.tasks">>
    /\ \A c \in Configs :
         /\ c.Directories # << >> => GetDirectories(c) = c.Directories
         /\ (c.Directories = << >> /\ c.Directory # "") =>
              GetDirectories(c) = <<c.Directory>>
         /\ (c.Directories = << >> /\ c.Directory = "") =>
              GetDirectories(c) = <<"~/.tasks">>
    /\ \E c \in Configs : configDirs \in {GetDirectories(c), <<"~/.tasks">>}

\* The single legacy directory is the configured list and its task is shown.
C25_Witness ==
    /\ configDirs = <<"/b">>
    /\ Ready
    /\ mode = "task"
    /\ Len(tasks) = 1

----------------------------------------------------------------------------
(* Properties of the list view *)

\* C26: a task without a status is shown with the configured default status,
\* "todo" when none is configured, and every row shows the indicator of the
\* status it shows: the configured indicator when the table has that status,
\* else "[ ]" for todo, "[~]" for in-progress and doing, the check mark for
\* done and completed, and blanks for any other status.
C26_DefaultStatusShown ==
    pc = "rendered" =>
        \A i \in 1..Len(tasks) :
            LET given == tasks[i].metadata.Status
                shown == prev[i].status
            IN  /\ given # "" => shown = given
                /\ (given = "" /\ config.DefaultStatus # "") =>
                     shown = config.DefaultStatus
                /\ (given = "" /\ config.DefaultStatus = "") => shown = "todo"
                /\ shown \in DOMAIN config.StatusIndicators =>
                     prev[i].indicator = config.StatusIndicators[shown]
                /\ shown \notin DOMAIN config.StatusIndicators =>
                     /\ shown = "todo" => prev[i].indicator = "[ ]"
                     /\ shown \in {"in-progress", "doing"} => prev[i].indicator = "[~]"
                     /\ shown \in {"done", "completed"} => prev[i].indicator = "[v]"
                     /\ shown \notin {"todo", "in-progress", "doing", "done",
                                      "completed"} => prev[i].indicator = "   "

\* A task without a status under a configured default status that has no
\* indicator of its own: the row shows the fallback indicator of that status.
C26_Witness ==
    /\ pc = "rendered"
    /\ tasks[1].metadata.Status = ""
    /\ config.DefaultStatus = "doing"
    /\ "doing" \notin DOMAIN config.StatusIndicators
    /\ prev[1] = [status |-> "doing", indicator |-> "[~]"]

----------------------------------------------------------------------------
(* Properties of the search filter *)

\* s holds q at offset i, letters compared without regard to case.
FoldedAt(s, q, i) ==
    \A k \in 1..Len(q) :
        LowerChar(SubSeq(s, i + k - 1, i + k - 1)) = LowerChar(SubSeq(q, k, k))

ContainsFolded(s, q) == \E i \in 1..(Len(s) - Len(q) + 1) : FoldedAt(s, q, i)

MatchesQuery(task) ==
    \/ ContainsFolded(task.name, searchQuery)
    \/ ContainsFolded(task.metadata.Title, searchQuery)
    \/ ContainsFolded(task.metadata.Status, searchQuery)
    \/ \E i \in 1..Len(task.metadata.Tags) :
         ContainsFolded(task.metadata.Tags[i], searchQuery)

\* C9: for a non-empty query filterTasks yields exactly the records of the
\* master list whose filename, title, status or some tag contains the query
\* without regard to case, each once and in the master list's order; when none
\* matches, the visible list in Search mode is empty.
C9_FilterExact ==
    (pc = "filtered" /\ searchQuery # "") =>
        /\ filteredTasks = SelectSeq(tasks, MatchesQuery)
        /\ (\A i \in 1..Len(tasks) : ~MatchesQuery(tasks[i])) => visibleTasks = << >>

\* A record found through its tags alone, two of which match, once; next to a
\* record that does not match.
C9_Witness ==
    /\ pc = "filtered"
    /\ searchQuery = "A"
    /\ Len(tasks) = 3
    /\ Len(filteredTasks) = 2
    /\ \E i \in 1..Len(filteredTasks) :
         /\ ~ContainsFolded(filteredTasks[i].name, searchQuery)
         /\ ~ContainsFolded(filteredTasks[i].metadata.Title, searchQuery)
         /\ Len(filteredTasks[i].metadata.Tags) = 2
         /\ \A k \in 1..2 : ContainsFolded(filteredTasks[i].metadata.Tags[k], searchQuery)

\* C10: filtering the result of a filter again with the same query changes
\* nothing.
C10_Idempotent ==
    pc = "refiltered" => filteredTasks = prev.filteredTasks

\* A filter that dropped a record, applied a second time.
C10_Witness ==
    /\ pc = "refiltered"
    /\ searchQuery # ""
    /\ Len(prev.tasks) = 3
    /\ Len(filteredTasks) = 2

----------------------------------------------------------------------------
(* Properties of the modes *)

\* C31: cancel in ConfirmDelete, by esc or by n, leads to TaskDetail and leaves
\* the master list, the cursor, the content buffer, the last error and the
\* files as they are.
C31_CancelDeleteKeeps ==
    /\ []((Ready /\ mode = "confirm") => ENABLED (KeyEsc /\ mode' = "task"))
    /\ []((Ready /\ mode = "confirm" /\ reloads < MaxReloads) =>
            ENABLED (KeyN /\ mode' = "task"))
    /\ [][(mode = "confirm" /\ (KeyEsc \/ KeyN)) =>
            /\ mode' = "task"
            /\ UNCHANGED <<tasks, cursor, taskContent, err, fs>>]_vars

\* ConfirmDelete over a viewed task with an error recorded earlier: cancel by n
\* is the next key.
C31_Witness ==
    /\ Ready
    /\ mode = "confirm"
    /\ taskContent # ""
    /\ err # NoError
    /\ ENABLED (KeyN /\ mode' = "task")
    /\ ENABLED (KeyEsc /\ mode' = "task")

\* C32: back in TaskDetail leads to List, also when the task was opened from
\* Search, empties the content buffer and leaves the master list and the
\* cursor as they are.
C32_BackToList ==
    /\ []((Ready /\ mode = "task") => ENABLED (KeyEsc /\ mode' = "list"))
    /\ [][(mode = "task" /\ KeyEsc) =>
            /\ mode' = "list"
            /\ taskContent' = ""
            /\ UNCHANGED <<tasks, cursor>>]_vars

\* A task opened from Search with a query typed and the cursor moved: back is
\* the next key.
C32_Witness ==
    /\ Ready
    /\ mode = "task"
    /\ searchQuery # ""
    /\ cursor > 0
    /\ taskContent # ""
    /\ ENABLED (KeyEsc /\ mode' = "list" /\ taskContent' = "")

\* C33: Help is entered only from List or Search, the help key changes
\* nothing in TaskDetail and ConfirmDelete, cancel in Help leads to List, and
\* entering Help and cancelling it leave the master list, the cursor and the
\* last error as they are.
C33_HelpFromListOnly ==
    [][/\ (mode' = "help" /\ mode # "help") =>
            /\ mode \in {"list", "search"}
            /\ UNCHANGED <<tasks, cursor, err>>
       /\ (mode \in {"task", "confirm"} /\ KeyHelp) => UNCHANGED vars
       /\ (mode = "help" /\ KeyEsc) =>
            /\ mode' = "list"
            /\ UNCHANGED <<tasks, cursor, err>>]_vars

\* Help entered from Search with the cursor moved and an error recorded:
\* cancel is the next key.
C33_Witness ==
    /\ Ready
    /\ mode = "help"
    /\ searchQuery # ""
    /\ cursor > 0
    /\ err # NoError
    /\ ENABLED (KeyEsc /\ mode' = "list")

\* Whether a record's filename, title, status or some tag contains q.
MatchesText(task, q) ==
    \/ ContainsFolded(task.name, q)
    \/ ContainsFolded(task.metadata.Title, q)
    \/ ContainsFolded(task.metadata.Status, q)
    \/ \E i \in 1..Len(task.metadata.Tags) : ContainsFolded(task.metadata.Tags[i], q)

\* The records of ts that match q, in order; all of them for the empty query.
MatchingOf(ts, q) ==
    LET Test(t) == MatchesText(t, q)
    IN  IF q = "" THEN ts ELSE SelectSeq(ts, Test)

\* C34: backspace in Search with a query typed removes the last character of
\* the query and nothing else of it, makes the visible list the records of
\* the master list that match the shorter query, and stays in Search;
\* backspace with an empty query or in another mode changes nothing.
C34_BackspaceDropsLast ==
    /\ []((Ready /\ mode = "search" /\ searchQuery # "") =>
            ENABLED (KeyBackspace /\ searchQuery' # searchQuery))
    /\ [][KeyBackspace =>
            IF mode = "search" /\ searchQuery # ""
            THEN /\ Len(searchQuery') = Len(searchQuery) - 1
                 /\ searchQuery = searchQuery' \o SubSeq(searchQuery, Len(searchQuery), Len(searchQuery))
                 /\ mode' = "search"
                 /\ tasks' = tasks
                 /\ visibleTasks' = MatchingOf(tasks, searchQuery')
            ELSE UNCHANGED vars]_vars

\* Search with two characters typed and a record hidden: backspace is the next
\* key and leaves one character.
C34_Witness ==
    /\ Ready
    /\ mode = "search"
    /\ Len(searchQuery) = 2
    /\ Len(visibleTasks) < Len(tasks)
    /\ ENABLED (KeyBackspace /\ Len(searchQuery') = 1 /\ Len(filteredTasks') > 0)

\* C35: the begin-search key in List sets the mode to Search, the query to
\* empty and the cursor to 0 and leaves the master list as it is; in
\* TaskDetail, ConfirmDelete and Help it changes nothing.
C35_BeginSearchFromList ==
    /\ []((Ready /\ mode = "list") => ENABLED (KeySlash /\ mode' = "search"))
    /\ [][KeySlash =>
            /\ mode = "list" =>
                 /\ mode' = "search"
                 /\ searchQuery' = ""
                 /\ cursor' = 0
                 /\ tasks' = tasks
            /\ mode \in {"task", "confirm", "help"} => UNCHANGED vars]_vars

\* List with the cursor moved and the query of an earlier search left behind:
\* begin-search is the next key.
C35_Witness ==
    /\ Ready
    /\ mode = "list"
    /\ cursor > 0
    /\ searchQuery # ""
    /\ ENABLED (KeySlash /\ mode' = "search" /\ searchQuery' = "" /\ cursor' = 0)

\* An editor is started in this step.
Scheduled == editor = NoPath /\ editor' # NoPath

\* An edit or a create waits for its reload: the editor runs, or it has exited
\* and its reload message is not processed yet.
PendingReload == editor # NoPath \/ reloads > 0

\* C36: an editor is started only by the create key in List, on a new file of
\* the first configured directory, and by the edit key in TaskDetail; starting
\* it leaves mode, master list, cursor, query and content buffer as they are,
\* and they stay so until the reload message is processed.
C36_EffectsLeaveState ==
    [][/\ Scheduled =>
            /\ \/ mode = "list" /\ KeyN
               \/ mode = "task" /\ KeyE
            /\ (mode = "list") =>
                 /\ editor' = Join(expandPath(configDirs[1], homeOk).path, NewTaskName)
                 /\ \A i \in fs' \ fs :
                      Universe[i].dir = expandPath(configDirs[1], homeOk).path
            /\ UNCHANGED <<mode, tasks, cursor, searchQuery, taskContent>>
       /\ (PendingReload /\ reloads' >= reloads) =>
            UNCHANGED <<mode, tasks, cursor, searchQuery, taskContent>>]_vars

\* C37: the content buffer is empty in every state whose mode is List, Search
\* or Help, also after a failed delete and after a reload.
C37_BufferOnlyWhileViewing ==
    mode \in {"list", "search", "help"} => taskContent = ""

\* C38: whenever the event loop takes a key, esc is accepted; it leads from
\* Help, Search and TaskDetail to List and from ConfirmDelete to TaskDetail, so
\* that two of them reach List from every mode, and in List it changes
\* nothing.
C38_NoModeTraps ==
    /\ [](Ready =>
            ENABLED (KeyEsc /\ mode' = IF mode = "confirm" THEN "task" ELSE "list"))
    /\ [][KeyEsc =>
            /\ mode \in {"help", "search", "task"} => mode' = "list"
            /\ mode = "confirm" => mode' = "task"
            /\ mode = "list" => UNCHANGED vars]_vars

\* ConfirmDelete over a task opened from Search: the first esc leads to
\* TaskDetail.
C38_Witness ==
    /\ Ready
    /\ mode = "confirm"
    /\ searchQuery # ""
    /\ Len(filteredTasks) > 0
    /\ ENABLED (KeyEsc /\ mode' = "task")

\* C39: the last error changes only when a select fails to read the file, when
\* a confirmed delete fails to remove the file, and when a reload message is
\* processed, which sets it to the aggregator's outcome; a select or a delete
\* that succeeds leaves an error recorded earlier in place.
C39_ErrorChangesOnThree ==
    [][/\ err' # err =>
            \/ /\ mode \in {"list", "search"}
               /\ KeyEnter
               /\ mode' = mode
               /\ err' = <<"failed to read task">>
            \/ /\ mode = "confirm"
               /\ KeyY
               /\ fs' = fs
               /\ tasks' = tasks
               /\ err' = <<"failed to delete task">>
            \/ /\ reloads' = reloads - 1
               /\ err' = loadTasksFromDirectories(configDirs, fs, readable, homeOk).err
       /\ (mode # "task" /\ mode' = "task") => err' = err
       /\ (fs' \subseteq fs /\ fs' # fs) => err' = err]_vars

\* A delete failed, and the task opened after it shows with the error still
\* recorded.
C39_Witness ==
    /\ pc = "run"
    /\ mode = "task"
    /\ taskContent # ""
    /\ viewed # NoPath
    /\ err = <<"failed to delete task">>

====
